---- MODULE Spec2Model ----
(***************************************************************************)
(* Decision manager (subjectaccessreview.Review), selection predicates     *)
(* (predicate.Ready, predicate.IssuerRefSelector, predicate.RBACBound) and *)
(* the attribute evaluator of the policy approver.                         *)
(*                                                                         *)
(* Spec      one or two Reviews of one request against one cluster, stepped*)
(*           at every collaborator call (List, Create, Evaluate).          *)
(* SpecPred  the three selection predicates applied to a policy list.      *)
(* SpecAttr  the attribute evaluator applied to one policy and request.    *)
(***************************************************************************)
EXTENDS Naturals, Sequences, FiniteSets, TLC

\* Largest number of policies in the cluster.
MaxPolicies == 2
\* Largest number of evaluators registered with the manager.
MaxEvaluators == 2

\* A nil pointer (no pattern is the one-entry sequence <<"nil">>).
Nil == <<"nil">>

(***************************************************************************)
(* Strings that are pattern-matched are sequences of one-character strings.*)
(***************************************************************************)
Star == "*"

\* A nil error.
NoError == ""

\* internal.WildcardMatchs(pattern, str): "*" matches any run of characters,
\* every other character matches itself.
RECURSIVE WildcardMatchs(_, _)
WildcardMatchs(pattern, str) ==
    IF pattern = <<>> THEN str = <<>>
    ELSE IF Head(pattern) = Star
         THEN \/ WildcardMatchs(Tail(pattern), str)
              \/ (str # <<>> /\ WildcardMatchs(pattern, Tail(str)))
         ELSE /\ str # <<>>
              /\ Head(str) = Head(pattern)
              /\ WildcardMatchs(Tail(pattern), Tail(str))

(***************************************************************************)
(* Requests and policies.                                                  *)
(***************************************************************************)
\* cr.Spec.IssuerRef of the requests that are reviewed.
IssuerRefs ==
    { [name |-> <<"c", "a">>, kind |-> <<"I">>, group |-> <<"g">>],
      [name |-> <<"c", "b">>, kind |-> <<"C">>, group |-> <<"g">>] }

\* crp.Spec.IssuerRefSelector: each field is a pattern, or Nil (a nil pointer).
IssuerRefSelectors ==
    { [name |-> Nil, kind |-> Nil, group |-> Nil],
      [name |-> <<"c", Star>>, kind |-> <<"I">>, group |-> <<Star>>] }

\* crp.Status.Conditions entries.
ConditionReady == "Ready"
ReadyTrue == [type |-> ConditionReady, status |-> "True"]
ReadyFalse == [type |-> ConditionReady, status |-> "False"]

\* metadata.name of the policies, in ascending (byte-wise) order.
PolicyNames == <<"a", "b", "c", "d">>

NameIndex(n) == CHOOSE i \in 1..Len(PolicyNames) : PolicyNames[i] = n

\* The Go comparison  a < b  on policy names.
NameLess(a, b) == NameIndex(a) < NameIndex(b)

Range(s) == { s[i] : i \in 1..Len(s) }

\* Number of entries of the list s that are equal to x.
Count(s, x) == Cardinality({ i \in 1..Len(s) : s[i] = x })

\* Every ordering of a set of records as a sequence without repetition.
Orderings(S) ==
    { s \in [1..Cardinality(S) -> S] : \A i, j \in 1..Cardinality(S) : s[i] = s[j] => i = j }

RECURSIVE Join(_, _)
\* strings.Join(elems, sep)
Join(elems, sep) ==
    IF elems = <<>> THEN ""
    ELSE IF Len(elems) = 1 THEN elems[1]
    ELSE elems[1] \o sep \o Join(Tail(elems), sep)


RemoveAt(s, k) == SubSeq(s, 1, k - 1) \o SubSeq(s, k + 1, Len(s))

(***************************************************************************)
(* State.                                                                  *)
(***************************************************************************)
VARIABLES
    cluster,            \* the CertificateRequestPolicy objects that exist
    cr,                 \* the CertificateRequest under review (its issuerRef)
    evaluators,         \* s.evaluators, in registration order
    oracle,             \* answers of the SubjectAccessReview API, by policy name
                        \* (for the predicates: all answers given, in order)
    evals,              \* responses of each evaluator, by evaluator and policy name
    run,                \* "first" or "second" Review of the request
    pc,                 \* position inside Review
    crps,               \* crps.Items, as returned by s.client.List
    policies,           \* Review's policies
    boundPolicies,      \* boundPolicies' accumulator
    i,                  \* index of the policy loop that is running
    j,                  \* index of the evaluator loop
    evaluatorDenied,
    evaluatorMessages,
    policyMessages,
    response,           \* the returned ReviewResponse
    err,                \* the returned error
    calls,              \* collaborator and evaluator calls of this Review, in order
    prev                \* outcome of the first Review, once the second has begun

vars == << cluster, cr, evaluators, oracle, evals, run, pc, crps, policies,
           boundPolicies, i, j, evaluatorDenied, evaluatorMessages,
           policyMessages, response, err, calls, prev >>

Names == { PolicyNames[k] : k \in 1..MaxPolicies }

EvaluatorNames == <<"attribute", "plugin", "extra">>

ConditionLists == { <<>>, <<ReadyTrue>>, <<ReadyFalse>> }

\* The policies named n of the given readiness.
PoliciesOf(names, conditionLists) ==
    [name : names, selector : IssuerRefSelectors, conditions : conditionLists]

\* Cluster scoped objects have unique names: one policy for each name of some
\* subset of the names.
ClustersOf(conditionLists) ==
    UNION { { { [name |-> n, selector |-> f[n].selector, conditions |-> f[n].conditions] : n \in D } :
              f \in [D -> [selector : IssuerRefSelectors, conditions : conditionLists]] } :
            D \in SUBSET Names }

Unknown == "unknown"

ResultApproved == "Approved"
ResultDenied == "Denied"
ResultUnprocessed == "Unprocessed"

\* approver.ResultNotDenied, approver.ResultDenied
EvalNotDenied == "NotDenied"
EvalDenied == "Denied"

ErrorOut == "error"

\* ReviewResponse{}
EmptyResponse == [result |-> "", message |-> ""]

\* EvaluationResponse.Message of evaluator e for policy name n.
EvaluationMessage(e, n, result) ==
    IF result = EvalDenied THEN e \o " rejects under " \o n ELSE ""

\* fmt.Sprintf("%q", name)
Quote(name) == "\"" \o name \o "\""

ApprovedMessage(name) == "Approved by CertificateRequestPolicy: " \o Quote(name)

\* fmt.Sprintf("[%s: %s]", policyMessage.name, policyMessage.message)
FormatPolicyMessage(pm) == "[" \o pm.name \o ": " \o pm.message \o "]"

FormatAll(pms) == [k \in 1..Len(pms) |-> FormatPolicyMessage(pms[k])]

DeniedMessage(pms) == "No policy approved this request: " \o Join(FormatAll(pms), " ")

RECURSIVE InsertByName(_, _)
\* Inserts pm after every entry that is not greater than it.
InsertByName(sorted, pm) ==
    IF sorted = <<>> THEN <<pm>>
    ELSE IF NameLess(pm.name, Head(sorted).name)
         THEN <<pm>> \o sorted
         ELSE <<Head(sorted)>> \o InsertByName(Tail(sorted), pm)

\* The slice is left in the order of evaluation.
SortStableNone(pms) == pms

RECURSIVE SortStable(_)
\* sort.SliceStable(policyMessages, name < name)
SortStable(pms) ==
    IF pms = <<>> THEN <<>>
    ELSE InsertByName(SortStable(SubSeq(pms, 1, Len(pms) - 1)), pms[Len(pms)])

\* One pass of the loop of issuerRefSelector over a single policy.
SelectorMatches(request, crp) ==
    LET issRefSel == crp.selector
        issRef == request
    IN /\ ~(issRefSel.name # Nil /\ ~WildcardMatchs(issRefSel.name, issRef.name))
       /\ ~(issRefSel.kind # Nil /\ ~WildcardMatchs(issRefSel.kind, issRef.kind))
       /\ ~(issRefSel.group # Nil /\ ~WildcardMatchs(issRefSel.group, issRef.group))

\* The loop of issuerRefSelector with no selector compared: every policy is kept.
issuerRefSelectorAll(request, allPolicies) == allPolicies

RECURSIVE issuerRefSelector(_, _)
issuerRefSelector(request, allPolicies) ==
    IF allPolicies = <<>> THEN <<>>
    ELSE (IF SelectorMatches(request, Head(allPolicies)) THEN <<Head(allPolicies)>> ELSE <<>>)
         \o issuerRefSelector(request, Tail(allPolicies))


\* Line 196: s.client.Create returned an error.
CreateFailedIgnored(out) == FALSE

CreateFailed(out) == out = ErrorOut

\* Lines 200-203: the policy is appended when the review's status is allowed.
KeepBoundAlways(bound, crp, out) == Append(bound, crp)

KeepBound(bound, crp, out) ==
    IF out = "allow" THEN Append(bound, crp) ELSE bound

\* Lines 98-102: evaluator.Evaluate returned an error.
EvaluateFailed(out) == out = ErrorOut

\* Lines 109-111: evaluatorDenied after one more response.
NoteDeniedLast(denied, result) == result = EvalDenied

NoteDenied(denied, result) == denied \/ result = EvalDenied

\* Line 96: the range over s.evaluators has no further element after index k.
EvaluatorsDoneOnDenial(k, denied) == ~(k < Len(evaluators)) \/ denied

EvaluatorsDone(k, denied) == ~(k < Len(evaluators))

\* Line 115: the policy approves.
Approves(denied, k) == ~denied

\* Lines 77-81: the result when no policy is bound or applicable.
NoneApplicable ==
    [result |-> ResultUnprocessed, message |-> "No CertificateRequestPolicies bound or applicable"]

(***************************************************************************)
(* Review, stepped at each call of a collaborator or an evaluator.         *)
(***************************************************************************)
InitWith(clusters) ==
    /\ cluster \in clusters
    /\ cr \in IssuerRefs
    /\ \E n \in 0..MaxEvaluators : evaluators = SubSeq(EvaluatorNames, 1, n)
    /\ oracle = [n \in Names |-> Unknown]
    /\ evals = [e \in Range(EvaluatorNames) |-> [n \in Names |-> Unknown]]
    /\ run = "first"
    /\ pc = "list"
    /\ crps = <<>>
    /\ policies = <<>>
    /\ boundPolicies = <<>>
    /\ i = 0
    /\ j = 0
    /\ evaluatorDenied = FALSE
    /\ evaluatorMessages = <<>>
    /\ policyMessages = <<>>
    /\ response = EmptyResponse
    /\ err = NoError
    /\ calls = <<>>
    /\ prev = [crps |-> <<>>, evaluators |-> <<>>, response |-> EmptyResponse, err |-> NoError,
               listFailed |-> FALSE]

\* return resp, e
Return(resp, e) ==
    /\ pc' = "done"
    /\ response' = resp
    /\ err' = e

\* Lines 86-96: the policy loop reaches policies[k] and its evaluator loop starts.
EnterPolicy(k) ==
    /\ pc' = "evaluate"
    /\ i' = k
    /\ j' = 1
    /\ evaluatorDenied' = FALSE
    /\ evaluatorMessages' = <<>>

\* Lines 76-120 with no evaluator registered: the first policy is never denied.
AfterBound(bound) ==
    /\ policies' = bound
    /\ IF Len(bound) = 0
       THEN /\ Return(NoneApplicable, NoError)
            /\ UNCHANGED << i, j, evaluatorDenied, evaluatorMessages >>
       ELSE IF evaluators = <<>>
       THEN /\ Return([result |-> ResultApproved,
                       message |-> ApprovedMessage(bound[1].name)], NoError)
            /\ i' = 1
            /\ UNCHANGED << j, evaluatorDenied, evaluatorMessages >>
       ELSE /\ EnterPolicy(1)
            /\ UNCHANGED << response, err >>

\* The listing can fail, except where a manager with fewer evaluators is
\* compared on a listing that succeeded, and must fail where that one failed.
ListCanFail == run = "without" => prev.listFailed

ListCanSucceed == run = "without" => ~prev.listFailed

\* Lines 59-62: s.client.List fails.
ListFails ==
    /\ pc = "list"
    /\ ListCanFail
    /\ calls' = Append(calls, [op |-> "List", policy |-> "", evaluator |-> "", out |-> ErrorOut])
    /\ Return(EmptyResponse, "list: unavailable")
    /\ UNCHANGED << cluster, cr, evaluators, oracle, evals, run, crps, policies,
                    boundPolicies, i, j, evaluatorDenied, evaluatorMessages,
                    policyMessages, prev >>

\* s.client.List returns the policies of the cluster in some order (the order
\* of the first Review when a manager with fewer evaluators is compared).
ListOrders == IF run = "without" THEN {prev.crps} ELSE Orderings(cluster)

\* Lines 59-82 up to the first SubjectAccessReview: the listing returns the
\* policies of the cluster in some order.
List ==
    /\ pc = "list"
    /\ ListCanSucceed
    /\ \E items \in ListOrders :
          /\ crps' = items
          /\ calls' = Append(calls, [op |-> "List", policy |-> "", evaluator |-> "", out |-> "ok"])
          /\ IF Len(items) = 0
             THEN /\ Return([result |-> ResultUnprocessed,
                             message |-> "No CertificateRequestPolicies exist"], NoError)
                  /\ UNCHANGED << policies, boundPolicies, i, j, evaluatorDenied,
                                  evaluatorMessages >>
             ELSE LET matching == issuerRefSelector(cr, items)
                  IN IF matching = <<>>
                     THEN /\ AfterBound(<<>>)
                          /\ UNCHANGED boundPolicies
                     ELSE /\ policies' = matching
                          /\ boundPolicies' = <<>>
                          /\ pc' = "create"
                          /\ i' = 1
                          /\ UNCHANGED << j, evaluatorDenied, evaluatorMessages,
                                          response, err >>
    /\ UNCHANGED << cluster, cr, evaluators, oracle, evals, run, policyMessages, prev >>

\* The answers the SubjectAccessReview API can give for policy name n: the one
\* it gave before for this request, or any.
OracleAnswers(n) ==
    IF oracle[n] = Unknown THEN {"allow", "deny", ErrorOut} ELSE {oracle[n]}

\* Lines 178-204 and 71-82: one pass of the loop of boundPolicies; the last
\* pass returns to Review.
Create ==
    /\ pc = "create"
    /\ LET crp == policies[i]
       IN \E out \in OracleAnswers(crp.name) :
             /\ oracle' = [oracle EXCEPT ![crp.name] = out]
             /\ calls' = Append(calls, [op |-> "Create", policy |-> crp.name,
                                        evaluator |-> "", out |-> out])
             /\ IF CreateFailed(out)
                THEN /\ Return(EmptyResponse,
                               "failed to determine bound policies: failed to create subjectaccessreview: unavailable")
                     /\ UNCHANGED << policies, boundPolicies, i, j, evaluatorDenied,
                                     evaluatorMessages >>
                ELSE LET bound == KeepBound(boundPolicies, crp, out)
                     IN /\ boundPolicies' = bound
                        /\ IF i < Len(policies)
                           THEN /\ i' = i + 1
                                /\ UNCHANGED << pc, policies, j, evaluatorDenied,
                                                evaluatorMessages, response, err >>
                           ELSE AfterBound(bound)
    /\ UNCHANGED << cluster, cr, evaluators, evals, run, crps, policyMessages, prev >>

\* The responses evaluator e can give for policy name n.
EvaluatorAnswers(e, n) ==
    IF evals[e][n] = Unknown THEN {EvalNotDenied, EvalDenied, ErrorOut} ELSE {evals[e][n]}

\* Lines 96-140: one pass of the evaluator loop; the last pass for a policy
\* goes on to lines 114-124, the last pass for the last policy to 126-140.
Evaluate ==
    /\ pc = "evaluate"
    /\ LET crp == policies[i]
           evaluator == evaluators[j]
       IN \E out \in EvaluatorAnswers(evaluator, crp.name) :
             /\ evals' = [evals EXCEPT ![evaluator][crp.name] = out]
             /\ calls' = Append(calls, [op |-> "Evaluate", policy |-> crp.name,
                                        evaluator |-> evaluator, out |-> out])
             /\ IF EvaluateFailed(out)
                THEN /\ Return(EmptyResponse, evaluator \o ": failed")
                     /\ UNCHANGED << i, j, evaluatorDenied, evaluatorMessages, policyMessages >>
                ELSE LET messages == Append(evaluatorMessages,
                                            EvaluationMessage(evaluator, crp.name, out))
                         denied == NoteDenied(evaluatorDenied, out)
                     IN IF ~EvaluatorsDone(j, denied)
                        THEN /\ j' = j + 1
                             /\ evaluatorDenied' = denied
                             /\ evaluatorMessages' = messages
                             /\ UNCHANGED << pc, i, policyMessages, response, err >>
                        ELSE IF Approves(denied, i)
                        THEN /\ Return([result |-> ResultApproved,
                                        message |-> ApprovedMessage(crp.name)], NoError)
                             /\ evaluatorDenied' = denied
                             /\ evaluatorMessages' = messages
                             /\ UNCHANGED << i, j, policyMessages >>
                        ELSE LET collected ==
                                     Append(policyMessages,
                                            [name |-> crp.name, message |-> Join(messages, ", ")])
                             IN IF i < Len(policies)
                                THEN /\ policyMessages' = collected
                                     /\ EnterPolicy(i + 1)
                                     /\ UNCHANGED << response, err >>
                                ELSE /\ policyMessages' = SortStable(collected)
                                     /\ evaluatorDenied' = denied
                                     /\ evaluatorMessages' = messages
                                     /\ Return([result |-> ResultDenied,
                                                message |-> DeniedMessage(SortStable(collected))], NoError)
                                     /\ UNCHANGED << i, j >>
    /\ UNCHANGED << cluster, cr, evaluators, oracle, run, crps, policies, boundPolicies, prev >>

\* Locals of a Review that begins.
BeginReview ==
    /\ pc' = "list"
    /\ crps' = <<>>
    /\ policies' = <<>>
    /\ boundPolicies' = <<>>
    /\ i' = 0
    /\ j' = 0
    /\ evaluatorDenied' = FALSE
    /\ evaluatorMessages' = <<>>
    /\ policyMessages' = <<>>
    /\ response' = EmptyResponse
    /\ err' = NoError
    /\ calls' = <<>>

Outcome ==
    [crps |-> crps, evaluators |-> evaluators, response |-> response, err |-> err,
     listFailed |-> (calls[1].out = ErrorOut)]

\* The same manager reviews the request once more; the listing may come back
\* in another order.
ReviewAgain ==
    /\ pc = "done"
    /\ run = "first"
    /\ run' = "again"
    /\ prev' = Outcome
    /\ BeginReview
    /\ UNCHANGED << cluster, cr, evaluators, oracle, evals >>

\* A manager constructed without one of the evaluators (NewSubjectAccessReview)
\* reviews the request against the same listing.
ReviewWithout ==
    /\ pc = "done"
    /\ run = "first"
    /\ run' = "without"
    /\ prev' = Outcome
    /\ \E k \in 1..Len(evaluators) : evaluators' = RemoveAt(evaluators, k)
    /\ BeginReview
    /\ UNCHANGED << cluster, cr, oracle, evals >>

\* One Review of a request; policies may be ready, failed or never reconciled.
Init == InitWith(ClustersOf(ConditionLists))

Next ==
    \/ ListFails
    \/ List
    \/ Create
    \/ Evaluate

Spec == Init /\ [][Next]_vars

\* Two Reviews of a request against a cluster of reconciled policies.
InitTwice == InitWith(ClustersOf({<<ReadyTrue>>}))

NextTwice ==
    \/ ListFails
    \/ List
    \/ Create
    \/ Evaluate
    \/ ReviewAgain
    \/ ReviewWithout

SpecTwice == InitTwice /\ [][NextTwice]_vars

\* One Review of a request against a cluster of policies that all carry a
\* Ready condition, true or false.
InitCalls == InitWith(ClustersOf({<<ReadyTrue>>, <<ReadyFalse>>}))

SpecCalls == InitCalls /\ [][Next]_vars


(***************************************************************************)
(* Properties of Review.                                                   *)
(***************************************************************************)
\* The condition of predicate.Ready, line 45, for some condition of the policy.
IsReady(crp) ==
    \E k \in 1..Len(crp.conditions) :
        crp.conditions[k].type = ConditionReady /\ crp.conditions[k].status = "True"

\* Review returned and no collaborator or evaluator returned an error.
ReturnedNoError == pc = "done" /\ err = NoError

\* The listed policies that match the request's issuer and that the requester
\* may use.
Candidates ==
    { p \in Range(crps) : SelectorMatches(cr, p) /\ oracle[p.name] = "allow" }

\* Every registered evaluator answers NotDenied for the policy.
FullySatisfies(p) ==
    \A k \in 1..Len(evaluators) : evals[evaluators[k]][p.name] = EvalNotDenied

Position(list, p) == CHOOSE k \in 1..Len(list) : list[k] = p

EvaluateCalls == SelectSeq(calls, LAMBDA c : c.op = "Evaluate")

\* The selected policies: the listed policies that are ready, match the
\* request's issuer and that the requester may use.
Selected == { p \in Candidates : IsReady(p) }

\* C1: when nothing errors, Review returns Approved if and only if some
\* selected (ready, issuer matching) and authorized policy has every registered
\* evaluator answer NotDenied, and the policy named in the approval is such a
\* policy.
C1_ApprovedIffSatisfyingPolicy ==
    ReturnedNoError =>
        /\ (response.result = ResultApproved) <=> (\E p \in Selected : FullySatisfies(p))
        /\ response.result = ResultApproved =>
               \E p \in Selected :
                   FullySatisfies(p) /\ response.message = ApprovedMessage(p.name)

\* C2: when nothing errors the result is Unprocessed exactly when no listed
\* policy is left after all selection predicates (readiness, issuer selector,
\* authorization), Approved exactly when some policy that is left satisfies
\* every evaluator, and Denied in every other case, never for an empty set.
C2_ThreeResults ==
    ReturnedNoError =>
        /\ response.result \in {ResultUnprocessed, ResultApproved, ResultDenied}
        /\ (response.result = ResultUnprocessed) <=> (Selected = {})
        /\ (response.result = ResultApproved) <=> (\E p \in Selected : FullySatisfies(p))
        /\ (response.result = ResultDenied) <=>
               (Selected # {} /\ ~\E p \in Selected : FullySatisfies(p))

\* C3: a listed policy whose Ready condition is not true gets no authorization
\* check and no evaluator call, never approves and is in no Denied message.
C3_NotReadyExcluded ==
    \A p \in Range(crps) :
        ~IsReady(p) =>
            /\ \A k \in 1..Len(calls) : calls[k].policy # p.name
            /\ ~(pc = "done" /\ response.result = ResultApproved
                             /\ response.message = ApprovedMessage(p.name))
            /\ \A k \in 1..Len(policyMessages) : policyMessages[k].name # p.name

\* C4: boundPolicies only narrows its input, and a policy the oracle does not
\* allow is dropped without an error and is given to no evaluator.
C4_BoundNarrows ==
    /\ LET matching == Range(issuerRefSelector(cr, crps))
       IN \A k \in 1..Len(boundPolicies) :
             /\ boundPolicies[k] \in matching
             /\ Count(boundPolicies, boundPolicies[k]) = 1
             /\ oracle[boundPolicies[k].name] = "allow"
    /\ pc = "create" => \A k \in 1..Len(boundPolicies) : boundPolicies[k] \in Range(policies)
    /\ \A k \in 1..Len(calls) :
          /\ (calls[k].op = "Create" /\ calls[k].out = "deny" /\ k = Len(calls)) => err = NoError
          /\ calls[k].op = "Evaluate" => oracle[calls[k].policy] = "allow"
    /\ \A p \in Range(crps) :
          oracle[p.name] = "deny" =>
              /\ \A k \in 1..Len(boundPolicies) : boundPolicies[k] # p
              /\ \A k \in 1..Len(calls) : ~(calls[k].op = "Evaluate" /\ calls[k].policy = p.name)

\* C4 witness: one policy was refused by the oracle, another was allowed and
\* evaluated, and Review returned a result.
C4_Witness ==
    /\ ReturnedNoError
    /\ \E k \in 1..Len(calls) : calls[k].op = "Create" /\ calls[k].out = "deny"
    /\ \E k \in 1..Len(calls) : calls[k].op = "Evaluate"
    /\ Len(policies) < Len(issuerRefSelector(cr, crps))

\* C5: a call that errors is the last call of the Review, and the Review
\* returns exactly then that error with an empty ReviewResponse.
C5_ErrorAborts ==
    /\ \A k \in 1..Len(calls) :
          calls[k].out = ErrorOut =>
              /\ k = Len(calls)
              /\ pc = "done"
              /\ err # NoError
              /\ response = EmptyResponse
    /\ err # NoError => /\ calls # <<>>
                    /\ calls[Len(calls)].out = ErrorOut
                    /\ response = EmptyResponse

\* C5 witness: an evaluator errors on the second policy after the first policy
\* was denied.
C5_Witness ==
    /\ pc = "done"
    /\ err # NoError
    /\ policyMessages # <<>>
    /\ calls[Len(calls)].op = "Evaluate"
    /\ i = 2


\* C7: a Denied message has one entry per surviving policy in ascending name
\* order, each with the joined messages of all evaluators, and a second Review
\* of the same request by the same manager that is Denied as well, whatever
\* the order of its listing, returns the identical message.
C7_DeniedMessageDeterministic ==
    (ReturnedNoError /\ response.result = ResultDenied) =>
        /\ \A k, l \in 1..Len(policyMessages) :
              k < l => NameLess(policyMessages[k].name, policyMessages[l].name)
        /\ { policyMessages[k].name : k \in 1..Len(policyMessages) }
               = { p.name : p \in Candidates }
        /\ Len(policyMessages) = Cardinality(Candidates)
        /\ \A k \in 1..Len(policyMessages) :
              policyMessages[k].message =
                  Join([e \in 1..Len(evaluators) |->
                           EvaluationMessage(evaluators[e], policyMessages[k].name,
                                             evals[evaluators[e]][policyMessages[k].name])], ", ")
        /\ response.message = DeniedMessage(policyMessages)
        /\ (run = "again" /\ prev.err = NoError /\ prev.response.result = ResultDenied) =>
               response.message = prev.response.message

\* C7 witness: both Reviews are Denied with two policies in the message, and
\* the second listing came back in the other order.
C7_Witness ==
    /\ run = "again"
    /\ ReturnedNoError
    /\ response.result = ResultDenied
    /\ prev.response.result = ResultDenied
    /\ Len(policyMessages) = 2
    /\ crps # prev.crps
    /\ evaluators = prev.evaluators

\* C8: when the manager with one evaluator more approved, the manager without
\* it approves the same request against the same listing: it neither errors
\* nor returns Denied or Unprocessed.
C8_EvaluatorAdditive ==
    (run = "without" /\ pc = "done"
       /\ prev.err = NoError /\ prev.response.result = ResultApproved) =>
        /\ err = NoError
        /\ response.result = ResultApproved

\* C8 witness: two evaluators approved with the second listed policy, and the
\* manager with one of them alone has reviewed the same listing.
C8_Witness ==
    /\ run = "without"
    /\ pc = "done"
    /\ prev.response.result = ResultApproved
    /\ Len(prev.evaluators) = 2
    /\ Len(evaluators) = 1
    /\ crps = prev.crps
    /\ Len(policies) = 2
    /\ prev.response.message = ApprovedMessage(policies[2].name)

\* C10: evaluators are called policy by policy in bound order, every
\* registered evaluator on each policy reached whatever the earlier responses
\* were; Approved names the first candidate of the listing that every
\* evaluator accepts, and no evaluator is called on a later policy.
C10_ShortCircuitAcrossPolicies ==
    /\ \A k \in 1..Len(EvaluateCalls) :
          /\ EvaluateCalls[k].policy = policies[((k - 1) \div Len(evaluators)) + 1].name
          /\ EvaluateCalls[k].evaluator = evaluators[((k - 1) % Len(evaluators)) + 1]
    /\ (ReturnedNoError /\ response.result = ResultApproved) =>
          /\ response.message = ApprovedMessage(policies[i].name)
          /\ FullySatisfies(policies[i])
          /\ Len(EvaluateCalls) = i * Len(evaluators)
          /\ \A q \in Candidates :
                Position(crps, q) < Position(crps, policies[i]) => ~FullySatisfies(q)
    /\ (ReturnedNoError /\ response.result = ResultDenied) =>
          Len(EvaluateCalls) = Len(policies) * Len(evaluators)

\* C10 witness: the first evaluator denied the first policy, the second
\* evaluator still ran on it, and the second policy approved.
C10_Witness ==
    /\ ReturnedNoError
    /\ response.result = ResultApproved
    /\ Len(evaluators) = 2
    /\ Len(EvaluateCalls) = 4
    /\ EvaluateCalls[1].out = EvalDenied
    /\ EvaluateCalls[2].policy = EvaluateCalls[1].policy
    /\ response.message = ApprovedMessage(EvaluateCalls[4].policy)

\* The calls of one collaborator, in the order they were made.
CallsOf(op) == SelectSeq(calls, LAMBDA c : c.op = op)

\* The listed policies whose selector matches the request, in listing order.
Survivors == SelectSeq(crps, LAMBDA p : SelectorMatches(cr, p))

\* C12: within one Review the listing is called exactly once, first, and a
\* failed listing ends the Review; the authorization checks are issued for
\* the policies that survived the issuer-reference selector only, each at
\* most once and in listing order, and none follows a check that errored; no
\* evaluator runs before every surviving policy had its check, without error.
C12_CollaboratorCalls ==
    LET creates == CallsOf("Create")
        survivors == Survivors
    IN /\ Len(CallsOf("List")) = (IF pc = "list" THEN 0 ELSE 1)
       /\ pc # "list" => calls[1].op = "List"
       /\ (pc # "list" /\ calls[1].out = ErrorOut) => (Len(calls) = 1 /\ pc = "done")
       /\ Len(creates) <= Len(survivors)
       /\ \A k \in 1..Len(creates) :
             /\ k <= Len(survivors)
             /\ creates[k].policy = survivors[k].name
             /\ creates[k].out = ErrorOut =>
                   /\ k = Len(creates)
                   /\ calls[Len(calls)] = creates[k]
                   /\ pc = "done"
       /\ pc = "create" => Len(creates) < Len(survivors)
       /\ \A k \in 1..Len(calls) :
             calls[k].op = "Evaluate" =>
                /\ Len(creates) = Len(survivors)
                /\ \A m \in 1..Len(creates) : creates[m].out # ErrorOut
                /\ \A m \in k..Len(calls) : calls[m].op # "Create"

\* C12 witness: of two listed policies both survived the selector, both had
\* their authorization check, in listing order, the first was refused, and the
\* evaluators then ran on the second.
C12_Witness ==
    /\ pc = "done"
    /\ Len(crps) = 2
    /\ Len(CallsOf("Create")) = 2
    /\ calls[2].op = "Create" /\ calls[2].policy = crps[1].name /\ calls[2].out = "deny"
    /\ calls[3].op = "Create" /\ calls[3].policy = crps[2].name
    /\ Len(calls) > 3
    /\ calls[4].op = "Evaluate" /\ calls[4].policy = crps[2].name


(***************************************************************************)
(* The selection predicates of package predicate, applied one after the    *)
(* other to a list of policies, each at most once, in any order.           *)
(***************************************************************************)
\* Lines 44-48: the policy is appended once for every condition that is Ready
\* and True.
RECURSIVE ReadyConditions(_, _)
ReadyConditions(crp, conditions) ==
    IF conditions = <<>> THEN <<>>
    ELSE (IF Head(conditions).type = ConditionReady /\ Head(conditions).status = "True"
          THEN <<crp>> ELSE <<>>)
         \o ReadyConditions(crp, Tail(conditions))

\* The loop over the policies ends at the first policy that is not ready.
RECURSIVE ReadyUntilNotReady(_)
ReadyUntilNotReady(list) ==
    IF list = <<>> THEN <<>>
    ELSE IF ReadyConditions(Head(list), Head(list).conditions) = <<>> THEN <<>>
    ELSE ReadyConditions(Head(list), Head(list).conditions) \o ReadyUntilNotReady(Tail(list))

RECURSIVE Ready(_)
Ready(list) ==
    IF list = <<>> THEN <<>>
    ELSE ReadyConditions(Head(list), Head(list).conditions) \o Ready(Tail(list))

RECURSIVE IssuerRefSelector(_, _)
IssuerRefSelector(request, list) ==
    IF list = <<>> THEN <<>>
    ELSE (IF SelectorMatches(request, Head(list)) THEN <<Head(list)>> ELSE <<>>)
         \o IssuerRefSelector(request, Tail(list))

\* The loop of RBACBound from its first remaining policy on; client holds the
\* answers of the API to the successive calls of client.Create.
RECURSIVE RBACBoundLoop(_, _, _)
RBACBoundLoop(client, list, bound) ==
    IF list = <<>> THEN [policies |-> bound, err |-> NoError]
    ELSE IF Head(client) = ErrorOut
         THEN [policies |-> <<>>,
               err |-> "failed to create subjectaccessreview: unavailable"]
         ELSE RBACBoundLoop(Tail(client), Tail(list),
                            IF Head(client) = "allow"
                            THEN Append(bound, Head(list)) ELSE bound)

RBACBound(client, list) == RBACBoundLoop(client, list, <<>>)

\* Status conditions a policy can carry when a predicate sees it: the
\* status holds a plain list of conditions, so a type can occur more than once.
PredicateConditionLists ==
    { <<>>, <<ReadyTrue>>, <<ReadyFalse>>, <<ReadyFalse, ReadyTrue>>, <<ReadyTrue, ReadyTrue>> }

\* Lists of policies with unique names.
PolicyLists ==
    UNION { Orderings(c) : c \in ClustersOf(PredicateConditionLists) }

Applied == { calls[k].op : k \in 1..Len(calls) }

InitPred ==
    /\ cluster = {}
    /\ cr \in IssuerRefs
    /\ evaluators = <<>>
    /\ oracle = [n \in Names |-> <<>>]
    /\ evals = [e \in Range(EvaluatorNames) |-> [n \in Names |-> Unknown]]
    /\ run = "first"
    /\ pc = "predicates"
    /\ policies \in PolicyLists
    /\ crps = policies
    /\ boundPolicies = <<>>
    /\ i = 0
    /\ j = 0
    /\ evaluatorDenied = FALSE
    /\ evaluatorMessages = <<>>
    /\ policyMessages = <<>>
    /\ response = EmptyResponse
    /\ err = NoError
    /\ calls = <<>>
    /\ prev = [crps |-> policies, evaluators |-> <<>>, response |-> EmptyResponse, err |-> NoError,
               listFailed |-> FALSE]

\* The predicate named op returns: crps keeps its input, policies its output;
\* prev.crps is the list the first predicate got.
PredicateReturns(op, result) ==
    /\ crps' = policies
    /\ policies' = result.policies
    /\ err' = result.err
    /\ calls' = Append(calls, [op |-> op, policy |-> "", evaluator |-> "",
                               out |-> IF result.err = NoError THEN "ok" ELSE ErrorOut])

\* A predicate that calls no collaborator is applied to the current list.
ApplyPredicate(op, result) ==
    /\ pc = "predicates"
    /\ err = NoError
    /\ op \notin Applied
    /\ PredicateReturns(op, result)
    /\ UNCHANGED << cluster, cr, evaluators, oracle, evals, run, pc, boundPolicies, i, j,
                    evaluatorDenied, evaluatorMessages, policyMessages, response, prev >>

ApplyReady == ApplyPredicate("Ready", [policies |-> Ready(policies), err |-> NoError])

ApplyIssuerRefSelector ==
    ApplyPredicate("IssuerRefSelector",
                   [policies |-> IssuerRefSelector(cr, policies), err |-> NoError])

\* RBACBound, stepped at each client.Create: one pass of its loop, the API
\* answering each call as it then does; oracle keeps the answers given for
\* each policy name. The last pass, or a failed one, returns.
ApplyRBACBound ==
    /\ pc \in {"predicates", "rbac"}
    /\ err = NoError
    /\ "RBACBound" \notin Applied
    /\ IF policies = <<>>
       THEN /\ PredicateReturns("RBACBound", RBACBound(<<>>, policies))
            /\ UNCHANGED << oracle, pc, boundPolicies, i >>
       ELSE LET k == IF pc = "rbac" THEN i ELSE 1
                bound == IF pc = "rbac" THEN boundPolicies ELSE <<>>
                crp == policies[k]
            IN \E out \in {"allow", "deny", ErrorOut} :
                  LET pass == RBACBoundLoop(<<out>>, <<crp>>, bound)
                  IN /\ oracle' = [oracle EXCEPT ![crp.name] = Append(@, out)]
                     /\ IF pass.err = NoError /\ k < Len(policies)
                        THEN /\ pc' = "rbac"
                             /\ i' = k + 1
                             /\ boundPolicies' = pass.policies
                             /\ UNCHANGED << crps, policies, err, calls >>
                        ELSE /\ pc' = "predicates"
                             /\ i' = 0
                             /\ boundPolicies' = <<>>
                             /\ PredicateReturns("RBACBound", pass)
    /\ UNCHANGED << cluster, cr, evaluators, evals, run, j, evaluatorDenied,
                    evaluatorMessages, policyMessages, response, prev >>

NextPred ==
    \/ ApplyReady
    \/ ApplyIssuerRefSelector
    \/ ApplyRBACBound

SpecPred == InitPred /\ [][NextPred]_vars

\* C6: the list a predicate returns is no longer than the list it was given
\* and holds no policy more often than that list does.
C6_PredicatesNeverAdd ==
    /\ Len(policies) <= Len(crps)
    /\ \A k \in 1..Len(policies) : Count(policies, policies[k]) <= Count(crps, policies[k])

\* The composition has ended: all three predicates ran, or one failed.
Composed == Cardinality(Applied) = 3 \/ err # NoError

\* The oracles that answer the same each time they are asked about a policy,
\* one of the given answers, and that gave the answers recorded for this
\* composition.
OraclesOf(answers) ==
    { o \in [Names -> answers] :
        \A n \in Names : \A k \in 1..Len(oracle[n]) : oracle[n][k] = o[n] }

\* The outcome of Ready, then IssuerRefSelector, then RBACBound on the list
\* this composition started from, under oracle o.
FixedOrderOutcome(o) ==
    LET list == IssuerRefSelector(cr, Ready(prev.crps))
    IN RBACBound([k \in 1..Len(list) |-> o[list[k].name]], list)

\* C11 as stated: in whatever order the three predicates were composed, the
\* outcome (the surviving policies, or the error) is that of the order
\* Ready, IssuerRefSelector, RBACBound under the same oracle, also when the
\* oracle errors.
C11_OrderIrrelevant ==
    Composed =>
        \A o \in OraclesOf({"allow", "deny", ErrorOut}) :
            [policies |-> policies, err |-> err] = FixedOrderOutcome(o)

\* The policy survives Ready and IssuerRefSelector.
Survives(crp) == IsReady(crp) /\ SelectorMatches(cr, crp)

\* The name of the first policy of the list for which oracle o errors, as a
\* set: empty when it errors for none.
FirstError(o, list) ==
    { list[k].name : k \in { m \in 1..Len(list) :
                               /\ o[list[m].name] = ErrorOut
                               /\ \A l \in 1..(m - 1) : o[list[l].name] # ErrorOut } }

\* The first listed policy for which oracle o errors, if there is one, survives
\* Ready and IssuerRefSelector.
FirstErrorSurvives(o) ==
    \A k \in 1..Len(prev.crps) :
        prev.crps[k].name \in FirstError(o, prev.crps) => Survives(prev.crps[k])

\* The policy whose authorization check errored in this composition, as a set.
FailedCheck == { n \in Names : \E k \in 1..Len(oracle[n]) : oracle[n][k] = ErrorOut }

\* C11 amended: under an oracle, erroring or not, whose first error in listing
\* order (if any) is for a policy that Ready and IssuerRefSelector keep, the
\* three predicates composed in any order yield the outcome of the order
\* Ready, IssuerRefSelector, RBACBound: the same surviving policies, or the
\* error of the authorization check of the same policy.
C11_OrderIrrelevantWhenFirstErrorSurvives ==
    Composed =>
        \A o \in OraclesOf({"allow", "deny", ErrorOut}) :
            FirstErrorSurvives(o) =>
                /\ [policies |-> policies, err |-> err] = FixedOrderOutcome(o)
                /\ FailedCheck = FirstError(o, IssuerRefSelector(cr, Ready(prev.crps)))

\* C11 witness: RBACBound ran first on a list of two policies; the first is
\* not ready and was allowed, the second survives Ready and IssuerRefSelector
\* and its check errored, which ended the composition.
C11_Witness ==
    /\ err # NoError
    /\ calls[1].op = "RBACBound"
    /\ Len(prev.crps) = 2
    /\ ~IsReady(prev.crps[1])
    /\ oracle[prev.crps[1].name] = <<"allow">>
    /\ Survives(prev.crps[2])
    /\ oracle[prev.crps[2].name] = <<ErrorOut>>


(***************************************************************************)
(* The attribute evaluator: attribute{}.Evaluate(policy, request).         *)
(* An optional field of the policy is <<>> (unset) or <<value>>.           *)
(***************************************************************************)
\* The characters of a matched string, as one string.
Text(chars) == Join(chars, "")

TextList(list) == "[" \o Join([k \in 1..Len(list) |-> Text(list[k])], " ") \o "]"

\* Every element of the request's sequence matches some allowed pattern.
AllMatch(allowed, values) ==
    \A k \in 1..Len(values) : \E a \in 1..Len(allowed) : WildcardMatchs(allowed[a], values[k])

IssuerMatches(ref, issuer) ==
    /\ WildcardMatchs(ref.name, issuer.name)
    /\ WildcardMatchs(ref.kind, issuer.kind)
    /\ WildcardMatchs(ref.group, issuer.group)

\* field.Invalid(field.NewPath(path), value, detail).Error()
Invalid(path, value, detail) == path \o ": Invalid value: " \o value \o ": " \o detail

\* A Go bool printed with %v.
BoolText(b) == IF b THEN "true" ELSE "false"

\* The violation of one field, as a list of no or one error.
CommonNameError(spec, request) ==
    IF spec.allowedCommonName # <<>>
       /\ ~WildcardMatchs(spec.allowedCommonName[1], request.commonName)
    THEN <<Invalid("spec.allowedCommonName", Text(request.commonName),
                   Text(spec.allowedCommonName[1]))>>
    ELSE <<>>

MinDurationError(spec, request) ==
    IF spec.minDuration # <<>> /\ request.duration < spec.minDuration[1]
    THEN <<Invalid("spec.minDuration", ToString(request.duration) \o "h0m0s",
                   ToString(spec.minDuration[1]) \o "h0m0s")>>
    ELSE <<>>

DNSNamesError(spec, request) ==
    IF spec.allowedDNSNames # <<>> /\ ~AllMatch(spec.allowedDNSNames[1], request.dnsNames)
    THEN <<Invalid("spec.allowedDNSNames", TextList(request.dnsNames),
                   TextList(spec.allowedDNSNames[1]))>>
    ELSE <<>>

IPAddressesError(spec, request) ==
    IF spec.allowedIPAddresses # <<>>
       /\ ~AllMatch(spec.allowedIPAddresses[1], request.ipAddresses)
    THEN <<Invalid("spec.allowedIPAddresses", TextList(request.ipAddresses),
                   TextList(spec.allowedIPAddresses[1]))>>
    ELSE <<>>

URIsError(spec, request) ==
    IF spec.allowedURIs # <<>> /\ ~AllMatch(spec.allowedURIs[1], request.uris)
    THEN <<Invalid("spec.allowedURIs", TextList(request.uris), TextList(spec.allowedURIs[1]))>>
    ELSE <<>>

\* A cmmeta.ObjectReference printed with %v.
ReferenceText(ref) ==
    "{" \o Text(ref.name) \o " " \o Text(ref.kind) \o " " \o Text(ref.group) \o "}"

IssuersError(spec, request) ==
    IF spec.allowedIssuers # <<>>
       /\ ~\E a \in 1..Len(spec.allowedIssuers[1]) :
               IssuerMatches(spec.allowedIssuers[1][a], request.issuerRef)
    THEN <<Invalid("spec.allowedIssuers", ReferenceText(request.issuerRef),
                   "[" \o Join([a \in 1..Len(spec.allowedIssuers[1]) |->
                                   ReferenceText(spec.allowedIssuers[1][a])], " ") \o "]")>>
    ELSE <<>>

IsCAError(spec, request) ==
    IF spec.allowedIsCA # <<>> /\ spec.allowedIsCA[1] # request.isCA
    THEN <<Invalid("spec.allowedIsCA", BoolText(request.isCA), BoolText(spec.allowedIsCA[1]))>>
    ELSE <<>>

AlgorithmError(spec, request) ==
    IF spec.allowedAlgorithm # <<>> /\ spec.allowedAlgorithm[1] # request.keyAlgorithm
    THEN <<Invalid("spec.allowedPrivateKey.allowedAlgorithm", request.keyAlgorithm,
                   spec.allowedAlgorithm[1])>>
    ELSE <<>>

\* Only the first violated field is reported.
ErrorListFirst(spec, request) ==
    LET all == CommonNameError(spec, request) \o MinDurationError(spec, request)
               \o DNSNamesError(spec, request) \o IPAddressesError(spec, request)
               \o URIsError(spec, request) \o IssuersError(spec, request)
               \o IsCAError(spec, request) \o AlgorithmError(spec, request)
    IN IF all = <<>> THEN <<>> ELSE <<all[1]>>

\* The field.ErrorList of Evaluate: the violations in the order of the fields.
ErrorList(spec, request) ==
    CommonNameError(spec, request) \o MinDurationError(spec, request)
    \o DNSNamesError(spec, request) \o IPAddressesError(spec, request)
    \o URIsError(spec, request) \o IssuersError(spec, request)
    \o IsCAError(spec, request) \o AlgorithmError(spec, request)

\* field.ErrorList.ToAggregate().Error()
AggregateError(el) ==
    IF Len(el) = 1 THEN el[1] ELSE "[" \o Join(el, ", ") \o "]"

AttributeEvaluate(spec, request) ==
    LET el == ErrorList(spec, request)
    IN IF el = <<>>
       THEN [result |-> EvalNotDenied, message |-> ""]
       ELSE [result |-> EvalDenied, message |-> AggregateError(el)]

\* The requests under evaluation.
AttributeRequests ==
    { [commonName |-> <<"t">>, duration |-> 100, dnsNames |-> << <<"f">>, <<"e">> >>,
       ipAddresses |-> << <<"1">> >>, uris |-> << <<"h">> >>,
       issuerRef |-> [name |-> <<"m">>, kind |-> <<"k">>, group |-> <<"g">>],
       isCA |-> TRUE, keyAlgorithm |-> "RSA"],
      [commonName |-> <<"t", "x">>, duration |-> 300, dnsNames |-> <<>>,
       ipAddresses |-> <<>>, uris |-> << <<"w">> >>,
       issuerRef |-> [name |-> <<"n">>, kind |-> <<"k">>, group |-> <<"g">>],
       isCA |-> FALSE, keyAlgorithm |-> "ECDSA"] }

\* The policy specs: every field unset, or one of two constraints.
AttributeSpecs ==
    [ allowedCommonName : { <<>>, << <<"t", Star>> >>, << <<"n">> >> },
      minDuration : { <<>>, <<50>>, <<200>> },
      allowedDNSNames : { <<>>, << << <<"f">> >> >>, << << <<Star>> >> >> },
      allowedIPAddresses : { <<>>, << << <<"5">> >> >>, << << <<"1">>, <<"2">> >> >> },
      allowedURIs : { <<>>, << << <<"w">> >> >>, << << <<Star>> >> >> },
      allowedIssuers : { <<>>,
                         << << [name |-> <<"n">>, kind |-> <<Star>>, group |-> <<Star>>] >> >>,
                         << << [name |-> <<"m">>, kind |-> <<"k">>, group |-> <<"g">>] >> >> },
      allowedIsCA : { <<>>, <<TRUE>>, <<FALSE>> },
      allowedAlgorithm : { <<>>, <<"ECDSA">>, <<"RSA">> } ]

InitAttr ==
    /\ cluster = {}
    /\ cr \in AttributeRequests
    /\ evaluators = <<"attribute">>
    /\ oracle = [n \in Names |-> Unknown]
    /\ evals = [e \in Range(EvaluatorNames) |-> [n \in Names |-> Unknown]]
    /\ run = "first"
    /\ pc = "attribute"
    /\ \E spec \in AttributeSpecs : policies = <<[name |-> "a", spec |-> spec]>>
    /\ crps = policies
    /\ boundPolicies = <<>>
    /\ i = 0
    /\ j = 0
    /\ evaluatorDenied = FALSE
    /\ evaluatorMessages = <<>>
    /\ policyMessages = <<>>
    /\ response = EmptyResponse
    /\ err = NoError
    /\ calls = <<>>
    /\ prev = [crps |-> <<>>, evaluators |-> <<>>, response |-> EmptyResponse, err |-> NoError,
               listFailed |-> FALSE]

\* attribute{}.Evaluate(ctx, policy, cr)
EvaluateAttribute ==
    /\ pc = "attribute"
    /\ response' = AttributeEvaluate(policies[1].spec, cr)
    /\ pc' = "evaluated"
    /\ UNCHANGED << cluster, cr, evaluators, oracle, evals, run, crps, policies,
                    boundPolicies, i, j, evaluatorDenied, evaluatorMessages,
                    policyMessages, err, calls, prev >>

NextAttr == EvaluateAttribute

SpecAttr == InitAttr /\ [][NextAttr]_vars


\* The constrained fields in the order of the evaluator's checks, each with
\* the error it reports.
AttributeFields(spec, request) ==
    << [set |-> spec.allowedCommonName # <<>>, error |-> CommonNameError(spec, request)],
       [set |-> spec.minDuration # <<>>, error |-> MinDurationError(spec, request)],
       [set |-> spec.allowedDNSNames # <<>>, error |-> DNSNamesError(spec, request)],
       [set |-> spec.allowedIPAddresses # <<>>, error |-> IPAddressesError(spec, request)],
       [set |-> spec.allowedURIs # <<>>, error |-> URIsError(spec, request)],
       [set |-> spec.allowedIssuers # <<>>, error |-> IssuersError(spec, request)],
       [set |-> spec.allowedIsCA # <<>>, error |-> IsCAError(spec, request)],
       [set |-> spec.allowedAlgorithm # <<>>, error |-> AlgorithmError(spec, request)] >>

\* The fields of the request that break the constraint the policy sets on
\* them, by their position in AttributeFields.
ViolatedFields(spec, request) ==
    LET some(allowed, values) ==
            \E v \in Range(values) : \A a \in Range(allowed) : ~WildcardMatchs(a, v)
    IN { k \in 1..8 :
           \/ k = 1 /\ spec.allowedCommonName # <<>>
                    /\ ~WildcardMatchs(spec.allowedCommonName[1], request.commonName)
           \/ k = 2 /\ spec.minDuration # <<>> /\ ~(request.duration >= spec.minDuration[1])
           \/ k = 3 /\ spec.allowedDNSNames # <<>>
                    /\ some(spec.allowedDNSNames[1], request.dnsNames)
           \/ k = 4 /\ spec.allowedIPAddresses # <<>>
                    /\ some(spec.allowedIPAddresses[1], request.ipAddresses)
           \/ k = 5 /\ spec.allowedURIs # <<>> /\ some(spec.allowedURIs[1], request.uris)
           \/ k = 6 /\ spec.allowedIssuers # <<>>
                    /\ \A ref \in Range(spec.allowedIssuers[1]) :
                           \/ ~WildcardMatchs(ref.name, request.issuerRef.name)
                           \/ ~WildcardMatchs(ref.kind, request.issuerRef.kind)
                           \/ ~WildcardMatchs(ref.group, request.issuerRef.group)
           \/ k = 7 /\ spec.allowedIsCA # <<>> /\ spec.allowedIsCA[1] = ~request.isCA
           \/ k = 8 /\ spec.allowedAlgorithm # <<>>
                    /\ spec.allowedAlgorithm[1] # request.keyAlgorithm }

\* C9: the attribute evaluator answers NotDenied with an empty message when
\* the policy sets no constraint; it answers Denied exactly when some
\* constrained field is violated, and then its message holds the error of
\* every violated field, and of no other, in the order of the fields.
C9_AttributeEnumeratesViolations ==
    pc = "evaluated" =>
        LET spec == policies[1].spec
            fields == AttributeFields(spec, cr)
            violated == ViolatedFields(spec, cr)
            reported == SelectSeq(fields, LAMBDA f : f.error # <<>>)
        IN /\ (\A k \in 1..8 : ~fields[k].set) =>
                  response = [result |-> EvalNotDenied, message |-> ""]
           /\ (response.result = EvalDenied) <=> (violated # {})
           /\ (response.result = EvalNotDenied) <=> (violated = {})
           /\ violated = {} => response.message = ""
           /\ \A k \in 1..8 : (k \in violated) <=> (fields[k].error # <<>>)
           /\ Len(reported) = Cardinality(violated)
           /\ violated # {} =>
                  response.message =
                      AggregateError([k \in 1..Len(reported) |-> reported[k].error[1]])

\* C9 witness: every one of the eight fields is violated at once.
C9_Witness ==
    /\ pc = "evaluated"
    /\ response.result = EvalDenied
    /\ ViolatedFields(policies[1].spec, cr) = 1..8

====
